---- MODULE Spec2Model ----
(***************************************************************************)
(* The decision/learning loop of the reinforcement-learning Agent          *)
(* (src/lib/agent.ts) as a state machine.                                   *)
(*                                                                         *)
(* JavaScript numbers are modelled exactly: epsilon, epsilonDecay,         *)
(* epsilonMin and the uniform draw are rationals [n, d] in lowest terms;   *)
(* rewards, predictions and targets are integers in units of 1/Scale.      *)
(* Arrays are sequences: the 0-based position p of the source is index     *)
(* p + 1 here.  Actions stay 0-based numbers, as in the source.            *)
(***************************************************************************)
EXTENDS Integers, Sequences, FiniteSets, TLC

(* ------------------------------------------------------------------ *)
(* Program constants                                                  *)
(* ------------------------------------------------------------------ *)
MEM_WINDOW_MIN_SIZE == 2
HIST_WINDOW_SIZE == 1000
HIST_WINDOW_MIN_SIZE == 10
\* tensor2d(future_target, [1, 3]): the hard-coded label width
LabelWidth == 3

(* ------------------------------------------------------------------ *)
(* Bounds of the model                                                *)
(* ------------------------------------------------------------------ *)
\* forward calls allowed beyond the warm-up (temporalWindow calls)
MaxPastWarmup == 2
\* backward calls allowed
MaxAge == 2
\* largest value of the reward accumulator
MaxReward == 1

\* fixed-point unit of rewards, predictions and targets: 100 stands for 1.0
Scale == 100

(* ------------------------------------------------------------------ *)
(* Numbers                                                            *)
(* ------------------------------------------------------------------ *)
RECURSIVE GCD(_, _)
GCD(a, b) == IF b = 0 THEN a ELSE GCD(b, a % b)

Rat(n, d) == LET g == GCD(n, d) IN [n |-> n \div g, d |-> d \div g]

\* a < b on numbers
RatLess(a, b) == a.n * b.d < b.n * a.d

\* a * b on numbers
RatMul(a, b) == Rat(a.n * b.n, a.d * b.d)

Max(a, b) == IF a >= b THEN a ELSE b

Min(a, b) == IF a <= b THEN a ELSE b

(* ------------------------------------------------------------------ *)
(* Inputs and configurations                                          *)
(* ------------------------------------------------------------------ *)
\* raw observations handed to the fp-th forward call: 1 x 1 tensors, a fresh
\* value at every call so that every buffer position is told apart
Observations(fp) == {<<fp>>}

\* outcomes of random(0, 1, true)
Draws == {Rat(0, 1), Rat(1, 1)}

\* values handed to addReward / setReward
RewardDeltas == {1}
RewardValues == {0}

\* loss reported by a resolved fit
Losses == {5}

\* hosts: what the JavaScript host does with an unhandled promise rejection
Hosts == {"terminate", "report"}

\* learningConfig objects; epsilon is the initial value of the mutable field
FastDecay ==
  [gamma |-> Rat(9, 10), epsilon |-> Rat(1, 1), epsilonDecay |-> Rat(1, 2),
   epsilonMin |-> Rat(3, 10), learningTime |-> 2, learningStepsRandom |-> 0]

SlowDecay ==
  [gamma |-> Rat(9, 10), epsilon |-> Rat(1, 1), epsilonDecay |-> Rat(3, 4),
   epsilonMin |-> Rat(1, 10), learningTime |-> 1000, learningStepsRandom |-> 1]

\* the agents constructed: an AgentConfig and the OutputSize of the Model
Agents ==
  { [temporalWindow |-> 0, memorySize |-> 1, batchSize |-> 2, OutputSize |-> 3,
     learningConfig |-> FastDecay],
    [temporalWindow |-> 1, memorySize |-> 2, batchSize |-> 1, OutputSize |-> 2,
     learningConfig |-> FastDecay],
    [temporalWindow |-> 0, memorySize |-> 2, batchSize |-> 2, OutputSize |-> 3,
     learningConfig |-> SlowDecay],
    [temporalWindow |-> 3, memorySize |-> 1, batchSize |-> 2, OutputSize |-> 2,
     learningConfig |-> SlowDecay] }

\* an array slot never written (a hole of new Array(n))
Undef == [k |-> "undefined"]

\* an array slot (or a result) holding the value x
Val(x) == [k |-> "value", v |-> x]

\* tensor([]): the empty encoded input
EmptyTensor == << >>

\* the outcome of a call that raised
Threw == [k |-> "threw"]

VARIABLES
  cfg,                \* this.config without the mutable epsilon
  epsilon,            \* this.config.learningConfig.epsilon
  model,              \* this.model: [OutputSize]
  done,               \* this.done
  track,              \* this.track
  currentReward,      \* this.currentReward
  actionsBuffer,      \* this.actionsBuffer
  statesBuffer,       \* this.statesBuffer
  inputsBuffer,       \* this.inputsBuffer
  rewardsHistory,     \* this.rewardsHistory (samples held)
  lossesHistory,      \* this.lossesHistory (samples held)
  netInputWindowSize, \* this.netInputWindowSize
  memory,             \* this.memory (mementos held)
  fits,               \* promises of model.fit not yet settled
  halted,             \* the host has terminated the program
  last,               \* what the last forward or backward call did
  inout               \* result of the last createInOutFromMemento call by the caller

vars == <<cfg, epsilon, model, done, track, currentReward, actionsBuffer,
          statesBuffer, inputsBuffer, rewardsHistory, lossesHistory,
          netInputWindowSize, memory, fits, halted, last, inout>>

\* the log of a call: op, whether it raised, where forward took the action
\* from, the calls made to predict, to random(0, 1, true), to memory.remember,
\* to memory.sample (the sizes asked for) and to model.fit, and track.learning
\* as the call found it
NoCall == [op |-> "none", threw |-> FALSE, source |-> "none", predicts |-> 0,
           drew |-> FALSE, remembered |-> 0, sampled |-> << >>, fitCalls |-> 0,
           learning |-> TRUE]

\* the log of the call op, made now
Call(op) == [NoCall EXCEPT !.op = op, !.learning = track.learning]

(* ------------------------------------------------------------------ *)
(* Collaborators: Model, Memory, TypedWindow                          *)
(* ------------------------------------------------------------------ *)
RECURSIVE SumSeq(_)
SumSeq(s) == IF s = << >> THEN 0 ELSE Head(s) + SumSeq(Tail(s))

\* Model.predict(input).getValue(): the value vector, OutputSize entries
Predict(x) ==
  LET base == <<20, 50, 10>>
      h == SumSeq(x) % 3
  IN [k \in 1..model.OutputSize |-> base[((k - 1 + h) % 3) + 1]]

\* index (0-based) of the first largest entry of v
ArgMax(v) ==
  CHOOSE a \in 0..(Len(v) - 1) :
    /\ \A k \in 1..Len(v) : v[k] <= v[a + 1]
    /\ \A k \in 1..a : v[k] < v[a + 1]

\* Model.predict(input).getHighestValue() on the value vector v: the index of
\* the highest value (the action forward returns from policy)
getHighestValue(v) == ArgMax(v)

\* Model.randomOutput(): any action of the action space
RandomOutputs == 0..(model.OutputSize - 1)

\* TypedWindow.add(value)
TypedWindowAdd(w, v) ==
  IF Len(w) >= HIST_WINDOW_SIZE THEN Append(Tail(w), v) ELSE Append(w, v)

\* Memory.remember(memento): the stores that may result
Remember(mem, m) ==
  IF Len(mem) < cfg.memorySize
  THEN {Append(mem, m)}
  ELSE {[mem EXCEPT ![i] = m] : i \in 1..Len(mem)}

\* Memory.sample(batchSize): the batches that may be returned
Sample(mem, n) ==
  LET k == Min(n, Len(mem))
  IN {[i \in 1..k |-> mem[f[i]]] : f \in [1..k -> 1..Len(mem)]}

(* ------------------------------------------------------------------ *)
(* Agent                                                              *)
(* ------------------------------------------------------------------ *)
\* range(0, OutputSize).map(val => val == a ? 1.0 : 0.0) for the slot a
OneHot(a) ==
  [j \in 1..model.OutputSize |-> IF a.k = "value" /\ a.v = j - 1 THEN 1 ELSE 0]

\* faulty variant: each iteration appends the one-hot action before the state
RECURSIVE NetInputActionFirstUpTo(_, _)
NetInputActionFirstUpTo(input, i) ==
  IF i = 0 THEN Val(input)
  ELSE LET prev == NetInputActionFirstUpTo(input, i - 1)
           s == statesBuffer[netInputWindowSize - 1 - (i - 1) + 1]
           a == actionsBuffer[netInputWindowSize - 1 - (i - 1) + 1]
       IN IF prev.k = "threw" \/ s.k = "undefined" THEN Threw
          ELSE Val(prev.v \o OneHot(a) \o s.v)

\* createNeuralNetInput after the loop iterations 0 .. i-1: the tensor so far,
\* or Threw when a concat was handed an unwritten slot
RECURSIVE NetInputUpTo(_, _)
NetInputUpTo(input, i) ==
  IF i = 0 THEN Val(input)
  ELSE LET prev == NetInputUpTo(input, i - 1)
           s == statesBuffer[netInputWindowSize - 1 - (i - 1) + 1]
           a == actionsBuffer[netInputWindowSize - 1 - (i - 1) + 1]
       IN IF prev.k = "threw" \/ s.k = "undefined" THEN Threw
          ELSE Val(prev.v \o s.v \o OneHot(a))

createNeuralNetInput(input) == NetInputUpTo(input, cfg.temporalWindow)

\* faulty variant: the decay check without the learningTime test
DecayAppliesForever ==
  /\ track.age > cfg.learningStepsRandom
  /\ RatLess(cfg.epsilonMin, epsilon)

\* the epsilon-decay check of forward
DecayApplies ==
  /\ track.age < cfg.learningTime
  /\ track.age > cfg.learningStepsRandom
  /\ RatLess(cfg.epsilonMin, epsilon)

DecayedEpsilon == IF DecayApplies THEN RatMul(epsilon, cfg.epsilonDecay) ELSE epsilon

\* faulty variant: the warm-up ends one call early
PastWarmupEarly(fp) == fp >= cfg.temporalWindow

\* faulty variant: no warm-up, the encoder runs from the first call
PastWarmupNever(fp) == fp >= 1

\* faulty variant: the warm-up ends one call late
PastWarmupLate(fp) == fp > cfg.temporalWindow + 1

\* forwardPasses (already incremented) is past the warm-up
PastWarmup(fp) == fp > cfg.temporalWindow

\* faulty variant: push(v) without shift()
PushOnly(buf, v) == Append(buf, v)

\* shift() then push(v)
ShiftPush(buf, v) == Append(Tail(buf), v)

forwardBody(input, draw, rnd) ==
  LET fp == track.forwardPasses + 1
  IN /\ track' = [track EXCEPT !.forwardPasses = fp]
     /\ IF ~cfg.hasLearningConfig
        THEN \* reading learningConfig.learningTime of undefined raises
             /\ last' = [Call("forward") EXCEPT !.op = "forward", !.threw = TRUE]
             /\ UNCHANGED <<epsilon, actionsBuffer, statesBuffer, inputsBuffer>>
        ELSE LET eps == DecayedEpsilon
                 warm == PastWarmup(fp)
                 netInput == IF warm THEN createNeuralNetInput(input)
                             ELSE Val(EmptyTensor)
                 explore == RatLess(draw, eps)
                 action == IF warm
                           THEN IF explore THEN rnd
                                ELSE getHighestValue(Predict(netInput.v))
                           ELSE rnd
             IN /\ epsilon' = eps
                /\ IF netInput.k = "threw"
                   THEN /\ last' = [Call("forward") EXCEPT !.op = "forward", !.threw = TRUE]
                        /\ UNCHANGED <<actionsBuffer, statesBuffer, inputsBuffer>>
                   ELSE /\ actionsBuffer' = ShiftPush(actionsBuffer, Val(action))
                        /\ statesBuffer' = ShiftPush(statesBuffer, Val(input))
                        /\ inputsBuffer' = ShiftPush(inputsBuffer, netInput)
                        /\ last' = [NoCall EXCEPT
                                      !.op = "forward",
                                      !.source = IF ~warm THEN "warmup"
                                                 ELSE IF explore THEN "random"
                                                 ELSE "policy",
                                      !.predicts = IF warm /\ ~explore THEN 1 ELSE 0,
                                      !.drew = warm]
     /\ UNCHANGED <<cfg, model, done, currentReward, rewardsHistory, lossesHistory,
                    netInputWindowSize, memory, fits, halted, inout>>

forward ==
  /\ ~halted
  /\ track.forwardPasses < cfg.temporalWindow + MaxPastWarmup
  /\ \E input \in Observations(track.forwardPasses + 1), draw \in Draws, rnd \in RandomOutputs :
       forwardBody(input, draw, rnd)

\* faulty variant: the done test inverted
createInOutFromMementoDoneInverted(m) ==
  LET discounted ==
        (cfg.gamma.n * getHighestValue(Predict(m.nextState.v)) * Scale) \div cfg.gamma.d
      target == IF done THEN m.reward * Scale + discounted ELSE m.reward * Scale
      prediction == Predict(m.state.v)
      future_target == IF m.action.k = "value" /\ m.action.v + 1 \in DOMAIN prediction
                       THEN [prediction EXCEPT ![m.action.v + 1] = target]
                       ELSE prediction
  IN IF ~cfg.hasLearningConfig \/ m.state.k # "value" \/ m.nextState.k # "value"
     THEN Threw
     ELSE IF Len(future_target) # LabelWidth
     THEN Threw
     ELSE Val([x |-> m.state.v, y |-> future_target])

\* createInOutFromMemento(memento): Val([x, y]) or Threw
createInOutFromMemento(m) ==
  LET \* gamma * getHighestValue(): the number getHighestValue returns, in
      \* units of 1/Scale
      discounted ==
        (cfg.gamma.n * getHighestValue(Predict(m.nextState.v)) * Scale) \div cfg.gamma.d
      target == IF ~done THEN m.reward * Scale + discounted ELSE m.reward * Scale
      prediction == Predict(m.state.v)
      future_target == IF m.action.k = "value" /\ m.action.v + 1 \in DOMAIN prediction
                       THEN [prediction EXCEPT ![m.action.v + 1] = target]
                       ELSE prediction
  IN IF ~cfg.hasLearningConfig \/ m.state.k # "value" \/ m.nextState.k # "value"
     THEN Threw
     ELSE IF Len(future_target) # LabelWidth
     THEN Threw  \* tensor2d(values, [1, 3]) with other than 3 values
     ELSE Val([x |-> m.state.v, y |-> future_target])

\* faulty variants of the gate of backward: the flag forgotten, the
\* history test off by one
LearningGateIgnoresFlag == track.forwardPasses <= cfg.temporalWindow + 1

LearningGateOffByOne == ~track.learning \/ track.forwardPasses <= cfg.temporalWindow

\* faulty variant: the history test forgotten
LearningGateNoHistory == ~track.learning

\* the gate of backward: stop before storing a memento
LearningGateStops ==
  ~track.learning \/ track.forwardPasses <= cfg.temporalWindow + 1

\* the second gate of backward: stop before replay
\* faulty variant: the store test lets a store of learningStepsRandom mementos replay
ReplayGateStopsBelow(len) == len < cfg.learningStepsRandom

ReplayGateStops(len) == len <= cfg.learningStepsRandom

\* the memento backward hands to memory.remember
BackwardMemento ==
  [action |-> actionsBuffer[netInputWindowSize - MEM_WINDOW_MIN_SIZE + 1],
   reward |-> currentReward,
   state |-> inputsBuffer[netInputWindowSize - MEM_WINDOW_MIN_SIZE + 1],
   nextState |-> inputsBuffer[netInputWindowSize - 1 + 1]]

\* replay raises before model.fit: reduce of an empty batch, or a training
\* pair that cannot be built
ReplayThrows(batch) ==
  Len(batch) = 0 \/ \E i \in 1..Len(batch) : createInOutFromMemento(batch[i]).k = "threw"

\* the promise model.fit returns, dispatched at the given age
Fit(age, batch) == [id |-> age, pairs |-> Len(batch)]

\* replay() on the store mem: sample, fit, setReward(0.)
replay(mem, age) ==
  \E batch \in Sample(mem, cfg.batchSize) :
    IF ReplayThrows(batch)
    THEN /\ last' = [Call("backward") EXCEPT !.op = "backward", !.threw = TRUE, !.remembered = 1,
                                   !.sampled = <<cfg.batchSize>>]
         /\ UNCHANGED <<fits, currentReward>>
    ELSE /\ fits' = Append(fits, Fit(age, batch))
         /\ currentReward' = 0
         /\ last' = [Call("backward") EXCEPT !.op = "backward", !.remembered = 1,
                                   !.sampled = <<cfg.batchSize>>, !.fitCalls = 1]

\* faulty variant: backward also restarts the count of forward passes
CountBackwardRestartsPasses(t) == [t EXCEPT !.age = @ + 1, !.forwardPasses = 0]

\* this.track.age += 1
CountBackward(t) == [t EXCEPT !.age = @ + 1]

backwardBody ==
  /\ rewardsHistory' = TypedWindowAdd(rewardsHistory, currentReward)
  /\ track' = CountBackward(track)
  /\ IF LearningGateStops
     THEN /\ last' = [Call("backward") EXCEPT !.op = "backward"]
          /\ UNCHANGED <<memory, fits, currentReward>>
     ELSE \E mem \in Remember(memory, BackwardMemento) :
            /\ memory' = mem
            /\ IF ~cfg.hasLearningConfig
               THEN \* reading learningConfig.learningStepsRandom of undefined raises
                    /\ last' = [Call("backward") EXCEPT !.op = "backward", !.threw = TRUE,
                                              !.remembered = 1]
                    /\ UNCHANGED <<fits, currentReward>>
               ELSE IF ReplayGateStops(Len(mem))
               THEN /\ last' = [Call("backward") EXCEPT !.op = "backward", !.remembered = 1]
                    /\ UNCHANGED <<fits, currentReward>>
               ELSE replay(mem, track.age + 1)
  /\ UNCHANGED <<cfg, epsilon, model, done, actionsBuffer, statesBuffer, inputsBuffer,
                 lossesHistory, netInputWindowSize, halted, inout>>

\* faulty variant: backward waits until no fit is in flight
backwardAwaitsFit ==
  /\ ~halted
  /\ track.age < MaxAge
  /\ fits = << >>
  /\ backwardBody

backward ==
  /\ ~halted
  /\ track.age < MaxAge
  /\ backwardBody

addReward ==
  /\ ~halted
  /\ \E value \in RewardDeltas :
       /\ currentReward + value <= MaxReward
       /\ currentReward' = currentReward + value
  /\ UNCHANGED <<cfg, epsilon, model, done, track, actionsBuffer, statesBuffer,
                 inputsBuffer, rewardsHistory, lossesHistory, netInputWindowSize,
                 memory, fits, halted, last, inout>>

setReward ==
  /\ ~halted
  /\ \E value \in RewardValues : currentReward' = value
  /\ UNCHANGED <<cfg, epsilon, model, done, track, actionsBuffer, statesBuffer,
                 inputsBuffer, rewardsHistory, lossesHistory, netInputWindowSize,
                 memory, fits, halted, last, inout>>

\* the caller freezes or resumes learning
setLearning ==
  /\ ~halted
  /\ track' = [track EXCEPT !.learning = ~track.learning]
  /\ UNCHANGED <<cfg, epsilon, model, done, currentReward, actionsBuffer, statesBuffer,
                 inputsBuffer, rewardsHistory, lossesHistory, netInputWindowSize,
                 memory, fits, halted, last, inout>>

\* fits without its i-th promise
Settle(i) == [j \in 1..(Len(fits) - 1) |-> IF j < i THEN fits[j] ELSE fits[j + 1]]

\* faulty variant: the accumulator is cleared when the fit resolves
fitResolvedThenReset ==
  /\ ~halted
  /\ \E i \in 1..Len(fits), loss \in Losses :
       /\ fits' = Settle(i)
       /\ lossesHistory' = TypedWindowAdd(lossesHistory, loss)
  /\ currentReward' = 0
  /\ UNCHANGED <<cfg, epsilon, model, done, track, actionsBuffer,
                 statesBuffer, inputsBuffer, rewardsHistory, netInputWindowSize,
                 memory, halted, last, inout>>

\* a fit resolves: result => this.lossesHistory.add(result.history.loss[0])
fitResolved ==
  /\ ~halted
  /\ \E i \in 1..Len(fits), loss \in Losses :
       /\ fits' = Settle(i)
       /\ lossesHistory' = TypedWindowAdd(lossesHistory, loss)
  /\ UNCHANGED <<cfg, epsilon, model, done, track, currentReward, actionsBuffer,
                 statesBuffer, inputsBuffer, rewardsHistory, netInputWindowSize,
                 memory, halted, last, inout>>

\* a fit rejects: reason => {throw new Error(...)} rejects the promise then()
\* returned, which nothing handles; the host terminates the program or only
\* reports the rejection
fitRejected ==
  /\ ~halted
  /\ \E i \in 1..Len(fits), h \in Hosts :
       /\ fits' = Settle(i)
       /\ halted' = (h = "terminate")
  /\ UNCHANGED <<cfg, epsilon, model, done, track, currentReward, actionsBuffer,
                 statesBuffer, inputsBuffer, rewardsHistory, lossesHistory,
                 netInputWindowSize, memory, last, inout>>

InitAgent(hasLC) ==
  /\ \E a \in Agents :
       /\ cfg = [temporalWindow |-> a.temporalWindow, memorySize |-> a.memorySize,
                 batchSize |-> a.batchSize, hasLearningConfig |-> hasLC,
                 gamma |-> a.learningConfig.gamma,
                 epsilonDecay |-> a.learningConfig.epsilonDecay,
                 epsilonMin |-> a.learningConfig.epsilonMin,
                 learningTime |-> a.learningConfig.learningTime,
                 learningStepsRandom |-> a.learningConfig.learningStepsRandom]
       /\ epsilon = a.learningConfig.epsilon
       /\ model = [OutputSize |-> a.OutputSize]
       /\ netInputWindowSize = Max(a.temporalWindow, MEM_WINDOW_MIN_SIZE)
       /\ actionsBuffer = [i \in 1..Max(a.temporalWindow, MEM_WINDOW_MIN_SIZE) |-> Undef]
       /\ inputsBuffer = [i \in 1..Max(a.temporalWindow, MEM_WINDOW_MIN_SIZE) |-> Undef]
       /\ statesBuffer = [i \in 1..Max(a.temporalWindow, MEM_WINDOW_MIN_SIZE) |-> Undef]
  /\ done = FALSE
  /\ track = [age |-> 0, forwardPasses |-> 0, learning |-> TRUE,
              averageLoss |-> 0, averageReward |-> 0]
  /\ currentReward = 0
  /\ rewardsHistory = << >>
  /\ lossesHistory = << >>
  /\ memory = << >>
  /\ fits = << >>
  /\ halted = FALSE
  /\ last = NoCall
  /\ inout = [k |-> "none"]

Init == InitAgent(TRUE)

Next ==
  \/ forward
  \/ backward
  \/ addReward
  \/ setReward
  \/ setLearning
  \/ fitResolved
  \/ fitRejected

Spec == Init /\ [][Next]_vars

(* ------------------------------------------------------------------ *)
(* The agent constructed without learningConfig                       *)
(* ------------------------------------------------------------------ *)
InitNoCfg == InitAgent(FALSE)

NextNoCfg ==
  \/ forward
  \/ backward
  \/ addReward
  \/ setReward
  \/ setLearning

SpecNoCfg == InitNoCfg /\ [][NextNoCfg]_vars

(* ------------------------------------------------------------------ *)
(* createInOutFromMemento called on mementos of the caller's choice   *)
(* ------------------------------------------------------------------ *)
EncodedInputs == {<<1>>, <<2>>, <<3>>}

Mementos ==
  [action : {Val(a) : a \in RandomOutputs}, reward : 0..MaxReward,
   state : {Val(x) : x \in EncodedInputs}, nextState : {Val(x) : x \in EncodedInputs}]

createInOut ==
  /\ \E m \in Mementos :
       inout' = [k |-> "called", memento |-> m, result |-> createInOutFromMemento(m)]
  /\ UNCHANGED <<cfg, epsilon, model, done, track, currentReward, actionsBuffer,
                 statesBuffer, inputsBuffer, rewardsHistory, lossesHistory,
                 netInputWindowSize, memory, fits, halted, last>>

NextInOut == createInOut

SpecInOut == Init /\ [][NextInOut]_vars

(* ------------------------------------------------------------------ *)
(* Steps                                                              *)
(* ------------------------------------------------------------------ *)
IsForward == track'.forwardPasses = track.forwardPasses + 1

IsBackward == track'.age = track.age + 1

IsRejection == Len(fits') < Len(fits) /\ lossesHistory' = lossesHistory

\* position p (0-based) of a buffer
At(buf, p) == buf[p + 1]

\* max(temporalWindow, 2), written out
WindowSlots == IF cfg.temporalWindow >= 2 THEN cfg.temporalWindow ELSE 2

(* ------------------------------------------------------------------ *)
(* C1                                                                 *)
(* ------------------------------------------------------------------ *)
\* C1: a backward call made while track.learning is false stores no memento,
\* samples nothing and dispatches no fit, whatever the reward accumulator,
\* age and forwardPasses are.
C1_FrozenBackwardLearnsNothing ==
  [][(IsBackward /\ ~track.learning) =>
       /\ memory' = memory
       /\ fits' = fits
       /\ last'.remembered = 0
       /\ last'.sampled = << >>
       /\ last'.fitCalls = 0]_vars

\* a backward call was made with learning off, past the history gate, with a
\* positive reward accumulated
C1_Witness ==
  /\ last.op = "backward"
  /\ ~last.learning
  /\ track.forwardPasses > cfg.temporalWindow + 1
  /\ rewardsHistory # << >>
  /\ rewardsHistory[Len(rewardsHistory)] > 0
  /\ memory = << >>

(* ------------------------------------------------------------------ *)
(* C2                                                                 *)
(* ------------------------------------------------------------------ *)
\* C2: a backward call that passes the learning/history gate replays exactly
\* once when the store's Length after its remember exceeds learningStepsRandom
\* (one sample request of batchSize mementos, one fit dispatched), and does
\* not replay when that Length is at or below learningStepsRandom.
C2_ReplayOncePastGate ==
  [][(IsBackward /\ track.learning /\ track.forwardPasses > cfg.temporalWindow + 1) =>
       IF Len(memory') > cfg.learningStepsRandom
       THEN /\ last'.sampled = <<cfg.batchSize>>
            /\ last'.fitCalls = 1
            /\ Len(fits') = Len(fits) + 1
       ELSE /\ last'.sampled = << >>
            /\ last'.fitCalls = 0
            /\ fits' = fits]_vars

(* ------------------------------------------------------------------ *)
(* C3                                                                 *)
(* ------------------------------------------------------------------ *)
\* C3: the three buffers always hold exactly max(temporalWindow, 2) slots, and
\* a forward call drops the oldest slot of each and writes one new entry at
\* the last position.
C3_BuffersKeepWindowSize ==
  /\ [](/\ netInputWindowSize = WindowSlots
        /\ Len(actionsBuffer) = WindowSlots
        /\ Len(statesBuffer) = WindowSlots
        /\ Len(inputsBuffer) = WindowSlots)
  /\ [][IsForward =>
          /\ \A i \in 1..(WindowSlots - 1) :
               /\ actionsBuffer'[i] = actionsBuffer[i + 1]
               /\ statesBuffer'[i] = statesBuffer[i + 1]
               /\ inputsBuffer'[i] = inputsBuffer[i + 1]
          /\ actionsBuffer'[WindowSlots].k = "value"
          /\ statesBuffer'[WindowSlots] = Val(<<track'.forwardPasses>>)
          /\ inputsBuffer'[WindowSlots].k = "value"]_vars

\* a window of three slots has been turned over completely
C3_Witness ==
  /\ cfg.temporalWindow = 3
  /\ track.forwardPasses = 5
  /\ statesBuffer = <<Val(<<3>>), Val(<<4>>), Val(<<5>>)>>

(* ------------------------------------------------------------------ *)
(* C4                                                                 *)
(* ------------------------------------------------------------------ *)
\* C4: a forward call whose incremented forwardPasses is at most
\* temporalWindow takes its action from randomOutput without consulting
\* predict or drawing against epsilon, and pushes the empty encoded input; a
\* forward call past temporalWindow pushes the encoder's output.
C4_WarmupIsRandomAndEmpty ==
  [][IsForward =>
       IF track'.forwardPasses <= cfg.temporalWindow
       THEN /\ last'.source = "warmup"
            /\ last'.predicts = 0
            /\ ~last'.drew
            /\ actionsBuffer'[WindowSlots].v \in RandomOutputs
            /\ inputsBuffer'[WindowSlots] = Val(EmptyTensor)
       ELSE /\ inputsBuffer'[WindowSlots] = createNeuralNetInput(statesBuffer'[WindowSlots].v)
            /\ inputsBuffer'[WindowSlots] # Val(EmptyTensor)]_vars

\* the first call past a warm-up of one call: the empty input of the warm-up
\* sits before an encoded input, and the action came from the policy
C4_Witness ==
  /\ cfg.temporalWindow = 1
  /\ track.forwardPasses = 2
  /\ last.op = "forward"
  /\ last.source = "policy"
  /\ At(inputsBuffer, netInputWindowSize - 2) = Val(EmptyTensor)
  /\ At(inputsBuffer, netInputWindowSize - 1).k = "value"
  /\ At(inputsBuffer, netInputWindowSize - 1).v # EmptyTensor

(* ------------------------------------------------------------------ *)
(* C5                                                                 *)
(* ------------------------------------------------------------------ *)
\* C5: starting from epsilon >= epsilonMin and 0 < epsilonDecay <= 1, epsilon
\* is never below epsilonMin.
C5_EpsilonNeverBelowMin == ~RatLess(epsilon, cfg.epsilonMin)

(* ------------------------------------------------------------------ *)
(* C6                                                                 *)
(* ------------------------------------------------------------------ *)
\* C6: epsilon changes only in a forward call made while
\* learningStepsRandom < age < learningTime and epsilon > epsilonMin, which
\* multiplies it by epsilonDecay once; every other call leaves it unchanged,
\* so epsilon never increases.
C6_EpsilonDecaysOnlyInSchedule ==
  [][/\ IF /\ IsForward
           /\ cfg.learningStepsRandom < track.age
           /\ track.age < cfg.learningTime
           /\ RatLess(cfg.epsilonMin, epsilon)
        THEN epsilon' = RatMul(epsilon, cfg.epsilonDecay)
        ELSE epsilon' = epsilon
     /\ ~RatLess(epsilon, epsilon')]_vars

\* epsilon = 1, epsilonDecay = 3/4, learningStepsRandom = 1: one forward at
\* age 2 has given 3/4
C6_Witness ==
  /\ cfg.learningStepsRandom = 1
  /\ cfg.epsilonDecay = Rat(3, 4)
  /\ track.age = 2
  /\ last.op = "forward"
  /\ epsilon = Rat(3, 4)

(* ------------------------------------------------------------------ *)
(* C7                                                                 *)
(* ------------------------------------------------------------------ *)
\* largest entry of v
MaxValue(v) == v[ArgMax(v) + 1]

\* the target of the claim: reward, plus gamma times the largest predicted
\* value of nextState unless the done flag is set
BellmanTarget(m) ==
  IF done THEN m.reward * Scale
  ELSE m.reward * Scale
         + (cfg.gamma.n * MaxValue(Predict(m.nextState.v))) \div cfg.gamma.d

\* C7: for every memento, createInOutFromMemento returns x = memento.state and
\* a label y that carries the target at memento.action and the model's
\* prediction for memento.state everywhere else.
C7_LabelIsBellmanTarget ==
  inout.k = "called" =>
    LET m == inout.memento
        r == inout.result
    IN /\ r.k = "value"
       /\ r.v.x = m.state.v
       /\ r.v.y[m.action.v + 1] = BellmanTarget(m)
       /\ \A j \in 1..model.OutputSize :
            j # m.action.v + 1 => r.v.y[j] = Predict(m.state.v)[j]

(* ------------------------------------------------------------------ *)
(* C8                                                                 *)
(* ------------------------------------------------------------------ *)
\* C8: when a dispatched fit rejects, the failure is fatal to the agent (the
\* program does not go on), no loss sample is appended for that fit and no
\* new fit is dispatched in response.
C8_RejectedFitIsFatal ==
  [][IsRejection =>
       /\ halted'
       /\ lossesHistory' = lossesHistory
       /\ Len(fits') = Len(fits) - 1]_vars

(* ------------------------------------------------------------------ *)
(* C9                                                                 *)
(* ------------------------------------------------------------------ *)
\* C9: constructed without learningConfig, every forward call and every
\* backward call raises, in every agent state.
C9_EveryCallFailsFast ==
  last.op \in {"forward", "backward"} => last.threw

\* C9, amended: constructed without learningConfig, every forward call raises
\* (after incrementing forwardPasses, before touching epsilon and the
\* buffers); a backward call raises exactly when learning is true and
\* forwardPasses > temporalWindow + 1, after recording the reward,
\* incrementing age and storing a memento, and completes normally otherwise.
C9_FailsOnlyWhereConfigIsRead ==
  [][/\ IsForward =>
          /\ last'.threw
          /\ UNCHANGED <<epsilon, actionsBuffer, statesBuffer, inputsBuffer>>
     /\ IsBackward =>
          /\ last'.threw <=>
               (track.learning /\ track.forwardPasses > cfg.temporalWindow + 1)
          /\ last'.threw => (last'.remembered = 1 /\ Len(memory') >= 1)
          /\ ~last'.threw => memory' = memory
          /\ rewardsHistory' = Append(rewardsHistory, currentReward)
          /\ fits' = fits]_vars

\* a backward call past the history gate raised after storing its memento
C9_Witness ==
  /\ ~cfg.hasLearningConfig
  /\ last.op = "backward"
  /\ last.threw
  /\ Len(memory) = 1
  /\ track.age = 1

(* ------------------------------------------------------------------ *)
(* C10                                                                *)
(* ------------------------------------------------------------------ *)
\* C10: fits are fire-and-forget: while fits are unresolved, forward,
\* backward, addReward and setReward can be called as they could without
\* them; two fits dispatched by successive backward calls can be unresolved
\* at once (the witness).
C10_UnresolvedFitBlocksNothing ==
  (fits # << >> /\ ~halted) =>
    /\ track.forwardPasses < cfg.temporalWindow + MaxPastWarmup => ENABLED forward
    /\ track.age < MaxAge => ENABLED backward
    /\ currentReward < MaxReward => ENABLED addReward
    /\ ENABLED setReward

\* two fits, dispatched by two successive backward calls, are both unresolved
C10_Witness ==
  /\ Len(fits) >= 2
  /\ fits[1].id + 1 = fits[2].id
  /\ last.op = "backward"
  /\ last.fitCalls = 1

(* ------------------------------------------------------------------ *)
(* C11                                                                *)
(* ------------------------------------------------------------------ *)
\* C11: a backward call made while forwardPasses <= temporalWindow + 1 stores
\* no memento and attempts no replay, whatever the learning flag; a backward
\* call made with learning true and forwardPasses > temporalWindow + 1 calls
\* memory.remember exactly once, and any replay of that call sees the store
\* with that memento in it.
C11_HistoryGateThenRememberOnce ==
  [][IsBackward =>
       /\ track.forwardPasses <= cfg.temporalWindow + 1 =>
            /\ memory' = memory
            /\ fits' = fits
            /\ last'.remembered = 0
            /\ last'.sampled = << >>
            /\ last'.fitCalls = 0
       /\ (track.learning /\ track.forwardPasses > cfg.temporalWindow + 1) =>
            /\ last'.remembered = 1
            /\ Len(memory') >= 1
            /\ Len(memory') = IF Len(memory) < cfg.memorySize
                              THEN Len(memory) + 1 ELSE Len(memory)
            /\ last'.sampled # << >> <=> Len(memory') > cfg.learningStepsRandom
            /\ last'.fitCalls = 1 =>
                 fits'[Len(fits')].pairs =
                   (IF cfg.batchSize <= Len(memory') THEN cfg.batchSize ELSE Len(memory'))]_vars

\* the first backward call past the gate found the store empty, stored its
\* memento and replayed with it
C11_Witness ==
  /\ last.op = "backward"
  /\ last.remembered = 1
  /\ last.sampled # << >>
  /\ last.fitCalls = 1
  /\ Len(memory) = 1
  /\ Len(rewardsHistory) = 1

(* ------------------------------------------------------------------ *)
(* The caller's step protocol: forward, reward, backward               *)
(* ------------------------------------------------------------------ *)
\* backward calls made under the step protocol
MaxRounds == 3

\* an agent whose store can outgrow learningStepsRandom is driven in strict
\* alternation, forward then backward; the others are called in any order
Alternates == cfg.memorySize > cfg.learningStepsRandom

forwardOfStep ==
  /\ ~halted
  /\ IF Alternates
     THEN track.forwardPasses = track.age /\ track.forwardPasses < MaxRounds
     ELSE track.forwardPasses < cfg.temporalWindow + MaxPastWarmup
  /\ \E input \in Observations(track.forwardPasses + 1), draw \in Draws, rnd \in RandomOutputs :
       forwardBody(input, draw, rnd)

backwardOfStep ==
  /\ ~halted
  /\ track.age < MaxRounds
  /\ Alternates => track.forwardPasses = track.age + 1
  /\ backwardBody

NextSteps ==
  \/ forwardOfStep
  \/ backwardOfStep
  \/ addReward
  \/ fitResolved
  \/ fitRejected

\* the caller goes on calling: a forward or backward call that stays possible
\* is eventually made
SpecSteps ==
  Init /\ [][NextSteps]_vars /\ WF_vars(forwardOfStep) /\ WF_vars(backwardOfStep)

(* ------------------------------------------------------------------ *)
(* C12                                                                *)
(* ------------------------------------------------------------------ *)
\* the memento a backward step added to the store is one with these fields
StoredMemento(action, reward, state, nextState) ==
  \E i \in 1..Len(memory') :
    /\ \A j \in 1..Len(memory) : j # i => memory'[j] = memory[j]
    /\ memory'[i] = [action |-> action, reward |-> reward,
                     state |-> state, nextState |-> nextState]

\* C12: every memento handed to memory.remember by backward has the action of
\* position netInputWindowSize - 2 of the action buffer, the state of position
\* netInputWindowSize - 2 and the nextState of position netInputWindowSize - 1
\* of the input buffer, and the reward of the step in which that action was
\* taken, the step before the most recent forward: the reward the backward
\* call closing that step recorded.
C12_MementoRewardIsOfItsStep ==
  [][(/\ IsBackward
      /\ last'.remembered = 1
      /\ track.forwardPasses = track.age + 1
      /\ Len(rewardsHistory) >= 1) =>
       StoredMemento(At(actionsBuffer, netInputWindowSize - 2),
                     rewardsHistory[Len(rewardsHistory)],
                     At(inputsBuffer, netInputWindowSize - 2),
                     At(inputsBuffer, netInputWindowSize - 1))]_vars

(* ------------------------------------------------------------------ *)
(* C13                                                                *)
(* ------------------------------------------------------------------ *)
\* C13: the step that dispatches a fit sets the reward accumulator to zero and
\* appends no loss, so the reset of a replay precedes the loss append of the
\* fit it dispatched; the loss append removes one fit in flight, adds one
\* sample to the loss window and changes nothing else, so reward added
\* between dispatch and resolution is still there when the fit resolves.
C13_ResetAtDispatchLossAppendOnly ==
  [][/\ Len(fits') > Len(fits) =>
          /\ currentReward' = 0
          /\ lossesHistory' = lossesHistory
          /\ IsBackward
     /\ lossesHistory' # lossesHistory =>
          /\ Len(fits) >= 1
          /\ Len(fits') = Len(fits) - 1
          /\ Len(lossesHistory') = Len(lossesHistory) + 1
          /\ currentReward' = currentReward
          /\ UNCHANGED <<cfg, epsilon, model, done, track, actionsBuffer, statesBuffer,
                         inputsBuffer, rewardsHistory, netInputWindowSize, memory,
                         halted, last>>]_vars

\* the last backward call dispatched a fit and cleared the accumulator; the
\* fit has resolved and the reward added since is in the accumulator
C13_Witness ==
  /\ last.op = "backward"
  /\ last.fitCalls = 1
  /\ fits = << >>
  /\ Len(lossesHistory) = 1
  /\ currentReward = MaxReward

(* ------------------------------------------------------------------ *)
(* C14                                                                *)
(* ------------------------------------------------------------------ *)
\* observation k, then for forward k-1 back to forward k-n its observation
\* followed by the one-hot vector of its action; actions is the action buffer
\* before forward k pushes, whose last slot holds the action of forward k-1
RECURSIVE EncodingOf(_, _, _)
EncodingOf(k, actions, n) ==
  IF n = 0 THEN <<k>>
  ELSE EncodingOf(k, actions, n - 1)
         \o <<k - n>>
         \o [j \in 1..model.OutputSize |->
               IF actions[netInputWindowSize - n + 1].v = j - 1 THEN 1 ELSE 0]

\* C14: for forward call number k > temporalWindow the encoded input is
\* observation k, then for i = 0 .. temporalWindow-1 the observation of
\* forward k-1-i immediately followed by the one-hot vector, of length
\* OutputSize, of the action forward k-1-i returned; the encoder reads the
\* buffers before the current observation is pushed, and the observation and
\* the earlier slots of the three buffers are pushed and shifted as they were.
C14_EncodedInputOrder ==
  [][(IsForward /\ track'.forwardPasses > cfg.temporalWindow) =>
       /\ inputsBuffer'[netInputWindowSize] =
            Val(EncodingOf(track'.forwardPasses, actionsBuffer, cfg.temporalWindow))
       /\ statesBuffer'[netInputWindowSize] = Val(<<track'.forwardPasses>>)
       /\ \A p \in 1..(netInputWindowSize - 1) :
            /\ statesBuffer'[p] = statesBuffer[p + 1]
            /\ actionsBuffer'[p] = actionsBuffer[p + 1]
            /\ inputsBuffer'[p] = inputsBuffer[p + 1]]_vars

\* forward 5 of the agent with temporalWindow 3 and two actions encoded
\* observation 5, then observations 4, 3 and 2 each with a one-hot action
C14_Witness ==
  /\ cfg.temporalWindow = 3
  /\ last.op = "forward"
  /\ track.forwardPasses = 5
  /\ inputsBuffer[netInputWindowSize].k = "value"
  /\ Len(inputsBuffer[netInputWindowSize].v) = 10
  /\ inputsBuffer[netInputWindowSize].v[1] = 5
  /\ inputsBuffer[netInputWindowSize].v[2] = 4
  /\ inputsBuffer[netInputWindowSize].v[3] + inputsBuffer[netInputWindowSize].v[4] = 1
  /\ inputsBuffer[netInputWindowSize].v[5] = 3
  /\ inputsBuffer[netInputWindowSize].v[8] = 2

(* ------------------------------------------------------------------ *)
(* C15                                                                *)
(* ------------------------------------------------------------------ *)
\* C15: forwardPasses and age never decrease; a forward call adds exactly 1
\* to forwardPasses and leaves age and the reward window alone; a backward
\* call adds exactly 1 to age, leaves forwardPasses alone and appends exactly
\* one sample, the reward accumulator as the call found it, to the reward
\* window, whether or not learning is on and wherever the call returns.
C15_CountersAndRewardSample ==
  [][/\ track'.forwardPasses >= track.forwardPasses
     /\ track'.age >= track.age
     /\ IF (last' # last /\ last'.op = "forward") \/ actionsBuffer' # actionsBuffer
           \/ track'.forwardPasses # track.forwardPasses
        THEN /\ track'.forwardPasses = track.forwardPasses + 1
             /\ track'.age = track.age
             /\ rewardsHistory' = rewardsHistory
        ELSE IF (last' # last /\ last'.op = "backward") \/ rewardsHistory' # rewardsHistory
                \/ track'.age # track.age
        THEN /\ track'.age = track.age + 1
             /\ track'.forwardPasses = track.forwardPasses
             /\ rewardsHistory' = Append(rewardsHistory, currentReward)
        ELSE TRUE]_vars

\* two backward calls of a frozen agent, the second recording the reward
\* added before it
C15_Witness ==
  /\ ~track.learning
  /\ last.op = "backward"
  /\ last.remembered = 0
  /\ track.age = 2
  /\ track.forwardPasses >= 1
  /\ rewardsHistory = <<0, MaxReward>>

(* ------------------------------------------------------------------ *)
(* C16                                                                *)
(* ------------------------------------------------------------------ *)
\* a step of the caller's addReward or setReward
IsRewardCall ==
  /\ currentReward' # currentReward
  /\ UNCHANGED <<cfg, epsilon, model, done, track, actionsBuffer, statesBuffer,
                 inputsBuffer, rewardsHistory, lossesHistory, netInputWindowSize,
                 memory, fits, halted, last>>

\* C16: the agent changes the reward accumulator only in replay, where it
\* sets it to zero: a backward call that does not reach replay leaves it
\* unchanged, a backward call that reaches replay leaves it zero, and no
\* forward call or fit callback touches it; so the reward a backward call
\* records and stores is what the caller added since the last replay.
C16_AccumulatorClearedByReplayOnly ==
  [][/\ IsBackward =>
          /\ rewardsHistory'[Len(rewardsHistory')] = currentReward
          /\ last'.remembered = 1 =>
               \E i \in 1..Len(memory') : memory'[i].reward = currentReward
          /\ IF last'.sampled = << >>
             THEN currentReward' = currentReward
             ELSE currentReward' = 0
     /\ currentReward' # currentReward => IsBackward \/ IsRewardCall]_vars

(* ------------------------------------------------------------------ *)
(* C17                                                                *)
(* ------------------------------------------------------------------ *)
\* the discounted term of line 160 for a memento, in units of 1/Scale
DiscountedTerm(m) ==
  (cfg.gamma.n * getHighestValue(Predict(m.nextState.v)) * Scale) \div cfg.gamma.d

IsEncoderOutput(slot) ==
  /\ slot.k = "value"
  /\ slot.v # EmptyTensor
  /\ Len(slot.v) = 1 + cfg.temporalWindow * (1 + model.OutputSize)
  /\ slot.v[1] > cfg.temporalWindow

\* C18: whatever temporalWindow and whatever the calls, the state and the
\* nextState of every memento handed to memory.remember are encoder outputs
\* of forward passes numbered above temporalWindow: never the empty input of
\* the warm-up, never a slot no forward has written.
C18_MementosHoldEncoderOutputs ==
  \A i \in 1..Len(memory) :
    /\ IsEncoderOutput(memory[i].state)
    /\ IsEncoderOutput(memory[i].nextState)

\* the earliest memento the gate lets through: its state is the output of
\* the first forward pass past the warm-up
C18_Witness ==
  /\ cfg.temporalWindow = 3
  /\ Len(memory) = 1
  /\ memory[1].state.v[1] = cfg.temporalWindow + 1
  /\ memory[1].nextState.v[1] = cfg.temporalWindow + 2

(* ------------------------------------------------------------------ *)
(* C19                                                                *)
(* ------------------------------------------------------------------ *)
\* C19: whatever temporalWindow, a forward call never raises in the encoder,
\* and when it runs the encoder (forwardPasses > temporalWindow) every slot
\* the encoder reads, positions netInputWindowSize-1-i of the state and action
\* buffers for i < temporalWindow, was written by an earlier forward call: the
\* state slot holds the observation of forward call forwardPasses-1-i, the
\* action slot an action of the model.
C19_EncoderReadsWrittenSlots ==
  [][IsForward =>
       /\ ~last'.threw
       /\ track'.forwardPasses > cfg.temporalWindow =>
            \A i \in 0..(cfg.temporalWindow - 1) :
              /\ At(statesBuffer, netInputWindowSize - 1 - i)
                   = Val(<<track'.forwardPasses - 1 - i>>)
              /\ At(actionsBuffer, netInputWindowSize - 1 - i).k = "value"
              /\ At(actionsBuffer, netInputWindowSize - 1 - i).v \in RandomOutputs]_vars

\* the first encoder run of the agent with temporalWindow 3: forward 4 read
\* the three slots forwards 1, 2 and 3 had written
C19_Witness ==
  /\ cfg.temporalWindow = 3
  /\ track.forwardPasses = 4
  /\ last.op = "forward"
  /\ last.drew
  /\ ~last.threw
  /\ Len(inputsBuffer[netInputWindowSize].v) = 10
  /\ inputsBuffer[netInputWindowSize].v[8] = 1

(* ------------------------------------------------------------------ *)
(* C20                                                                *)
(* ------------------------------------------------------------------ *)
\* a backward call has reached replay
ReplayReached == last.op = "backward" /\ last.sampled # << >>

\* C20: with a store that never holds more than memorySize mementos, if
\* memorySize <= learningStepsRandom then no sequence of forward and backward
\* calls reaches replay: no fit is dispatched, the loss window stays empty and
\* no step of the agent lowers the reward accumulator; if learning is on,
\* memorySize > learningStepsRandom and forward and backward strictly
\* alternate, a replay eventually occurs.
C20_ReplayNeedsRoomInTheStore ==
  /\ [](cfg.memorySize <= cfg.learningStepsRandom =>
          /\ ~ReplayReached
          /\ last.fitCalls = 0
          /\ fits = << >>
          /\ lossesHistory = << >>)
  /\ [][cfg.memorySize <= cfg.learningStepsRandom => currentReward' >= currentReward]_vars
  /\ (cfg.memorySize > cfg.learningStepsRandom /\ track.learning) => <>ReplayReached

\* an agent whose store is full without exceeding learningStepsRandom: its
\* second storing backward call returned before replay, the reward kept
C20_Witness ==
  /\ cfg.memorySize <= cfg.learningStepsRandom
  /\ last.op = "backward"
  /\ last.remembered = 1
  /\ Len(memory) = cfg.memorySize
  /\ track.age >= 2
  /\ rewardsHistory[1] = MaxReward
  /\ currentReward = MaxReward
====
